---- MODULE Spec2Model ----
(***************************************************************************)
(* Model of dingospeed's internal/service/meta_service.go: the metadata   *)
(* cache-and-proxy (MetaProxyCommon, requestAndSaveMeta), the refs proxy  *)
(* (RepoRefs) and the directory listing assembler (RepositoryFiles,       *)
(* analysisFile, sortNodes).                                               *)
(*                                                                         *)
(* MetaProxyCommon and RepoRefs are cut at their calls to the              *)
(* collaborators (resolver, cache store, origin, emitter): the handlers   *)
(* take no lock, so these are the points where concurrently served        *)
(* requests interleave.  The collaborators themselves (internal/dao,      *)
(* pkg/util, pkg/common, pkg/consts, pkg/config) are taken at their       *)
(* interface: a call succeeds or fails, and a cache file holds what was   *)
(* last written to it.                                                     *)
(*                                                                         *)
(* Three specifications share the variables: Spec runs MetaProxyCommon    *)
(* requests, RefsSpec runs RepoRefs requests, ListSpec runs               *)
(* RepositoryFiles on a populated paths-info cache.  The three handlers   *)
(* work on disjoint cache paths.                                           *)
(***************************************************************************)
EXTENDS Naturals, Integers, Sequences, FiniteSets, TLC

\* ------------------------------------------------------------------ bounds
NumProcs == 2                  \* concurrently served MetaProxyCommon requests
MaxRequests == 3               \* MetaProxyCommon requests served in one run
NumRefsProcs == 1              \* concurrently served RepoRefs requests
MaxNameLen == 2                \* length of a directory entry's name, in bytes
MaxEntries == 3                \* entries under a listing root

Procs == 1..NumProcs
RProcs == 1..NumRefsProcs

\* ------------------------------------------------------------ the universe
CommitSeq == <<"c1", "c2">>    \* immutable commit identifiers, oldest first
Commits   == {CommitSeq[k] : k \in 1..Len(CommitSeq)}
SymRevs   == {"main"}          \* symbolic, movable revisions
Revisions == SymRevs \cup Commits
RequestRevs == SymRevs \cup {CommitSeq[1]}   \* the revision arguments tried

RequestTypeHead == "head"      \* consts.RequestTypeHead
RequestTypeGet  == "get"
Methods == {RequestTypeHead, RequestTypeGet}

ReposRoot == "repos"           \* config.SysConfig.Repos()
MetaRepoType == "models"
MetaOrgRepo  == <<"org", "repo">>   \* the segments of "org/repo"

StatusOK                == 200 \* http.StatusOK
StatusTemporaryRedirect == 307 \* http.StatusTemporaryRedirect
ErrorStatuses == {404}         \* statuses of a refusing origin or resolver

\* ---------------------------------------------------------------- variables
VARIABLES
    online,     \* config.SysConfig.Online()
    refs,       \* the hub: which commit each symbolic revision points to
    files,      \* the cache store: path -> CacheContent, for the files present
    dirs,       \* directories made by util.MakeDirs
    pc,         \* per request: position in MetaProxyCommon
    req,        \* per request: [rev, method], the handler's arguments
    sha,        \* per request: commitSha returned by GetFileCommitSha
    resp,       \* per request: the response of RemoteRequestMeta
    content,    \* per request: the handler's cacheContent
    calls,      \* per request: the collaborator calls made, with their results
    emitted,    \* per request: what was sent to the client
    outcome,    \* per request: the response the handler ended with
    served,     \* number of MetaProxyCommon requests accepted so far
    prior,      \* per request: the requests that had succeeded when it arrived
    clobbered,  \* per request: another request wrote over its revision-keyed
                \* file after it did
    rpc,        \* per refs request: position in RepoRefs
    rreq,       \* per refs request: [repoType, org, repo]
    rresp,      \* per refs request: the response of metaDao.RepoRefs
    rcontent,   \* per refs request: the handler's cacheContent
    rcalls,     \* per refs request: the collaborator calls made
    chan,       \* per refs request: bodyStreamChan
    remitted,   \* per refs request: what ResponseStream sent to the client
    routcome,   \* per refs request: how the handler returned
    listing     \* the RepositoryFiles call: its arguments and its result

envVars  == <<online, refs, files, dirs>>
metaVars == <<pc, req, sha, resp, content, calls, emitted, outcome, served,
              prior, clobbered>>
refsVars == <<rpc, rreq, rresp, rcontent, rcalls, chan, remitted, routcome>>
vars == <<envVars, metaVars, refsVars, listing>>

\* ------------------------------------------------------------------- values
NoContent == [status |-> 0, headers |-> <<>>, body |-> <<>>]
NoResp    == [status |-> 0, headers |-> <<>>, body |-> <<>>]
NoEmit    == [sent |-> FALSE, status |-> 0, headers |-> <<>>, body |-> <<>>]
NoOutcome == [kind |-> "none", code |-> 0]
NoSha     == ""
NoReq     == [rev |-> "", method |-> ""]

\* one entry of a call log: the collaborator called, how the call ended
\* ("ok", "err", or what it answered) and the status code it carried
Call(op, res, code) == [op |-> op, res |-> res, code |-> code]

Ops(log) == {log[k].op : k \in DOMAIN log}
Last(log) == log[Len(log)]

\* A path is the directory (its segments) and the file name (its pieces), as
\* the two nested Sprintf calls build it.
\* fmt.Sprintf("%s/api/%s/%s/revision/%s", Repos(), repoType, orgRepo, rev)
ApiDir(repoType, orgRepo, rev) ==
    <<ReposRoot, "api", repoType>> \o orgRepo \o <<"revision", rev>>

\* fmt.Sprintf("%s/%s", apiDir, fmt.Sprintf("meta_%s.json", method))
ApiMetaPath(repoType, orgRepo, rev, method) ==
    [dir |-> ApiDir(repoType, orgRepo, rev), name |-> <<"meta_", method, ".json">>]

\* util.FileExists
FileExists(p) == p \in DOMAIN files

\* the cache store after a successful WriteCacheRequest(p, ...): the file at p
\* is created or replaced, every other file is kept
WriteFile(fs, p, c) ==
    [q \in (DOMAIN fs) \cup {p} |-> IF q = p THEN c ELSE fs[q]]

\* the directory util.MakeDirs creates for a file path: its parent
DirOf(p) == p.dir

\* Response.ExtractHeaders: the stored headers are derived from the raw ones
ExtractHeaders(h) == <<"extracted", h>>

\* the commit a revision denotes on the hub right now
CommitOf(rev) == IF rev \in SymRevs THEN refs[rev] ELSE rev

\* The origin's answer for (method, commit) is a function of the commit
\* (commits are immutable); one commit is served directly, the other through
\* a temporary redirect.  The handler never inspects the body, so none is
\* assumed empty.
OriginStatus(commit) ==
    IF commit = "c1" THEN StatusOK ELSE StatusTemporaryRedirect

OriginMeta(method, commit) ==
    [status |-> OriginStatus(commit), headers |-> <<"hdr", method, commit>>,
     body |-> <<commit>>]

\* lines 138-142: the CacheContent built from a response
CacheContentOf(r) ==
    [status |-> r.status, headers |-> ExtractHeaders(r.headers), body |-> r.body]

\* -------------------------------------------------------------------- Init
NoChan == [buf |-> <<>>, closed |-> FALSE, made |-> FALSE, cap |-> 0]
NoRReq == [repoType |-> "", org |-> "", repo |-> ""]
NoREmit == [sent |-> FALSE, headers |-> <<>>, body |-> <<>>]
NoListing ==
    [called |-> FALSE, commit |-> "", filePath |-> <<>>, order |-> <<>>,
     failed |-> {}, err |-> "", nodes |-> <<>>]

\* no request has arrived yet
InitRequests ==
    /\ pc = [i \in Procs |-> "idle"]
    /\ req = [i \in Procs |-> NoReq]
    /\ sha = [i \in Procs |-> NoSha]
    /\ resp = [i \in Procs |-> NoResp]
    /\ content = [i \in Procs |-> NoContent]
    /\ calls = [i \in Procs |-> <<>>]
    /\ emitted = [i \in Procs |-> NoEmit]
    /\ outcome = [i \in Procs |-> NoOutcome]
    /\ served = 0
    /\ prior = [i \in Procs |-> {}]
    /\ clobbered = [i \in Procs |-> FALSE]
    /\ rpc = [i \in RProcs |-> "idle"]
    /\ rreq = [i \in RProcs |-> NoRReq]
    /\ rresp = [i \in RProcs |-> NoResp]
    /\ rcontent = [i \in RProcs |-> NoContent]
    /\ rcalls = [i \in RProcs |-> <<>>]
    /\ chan = [i \in RProcs |-> NoChan]
    /\ remitted = [i \in RProcs |-> NoREmit]
    /\ routcome = [i \in RProcs |-> NoOutcome]
    /\ listing = NoListing

\* the service starts in either mode on an empty cache
Init ==
    /\ online \in BOOLEAN
    /\ refs = [r \in SymRevs |-> CommitSeq[1]]
    /\ files = <<>>
    /\ dirs = {}
    /\ InitRequests

\* ------------------------------------------------------------- environment
\* a branch is advanced to a newer commit on the hub
MoveRef ==
    /\ \E r \in SymRevs, k \in 1..(Len(CommitSeq) - 1) :
          /\ refs[r] = CommitSeq[k]
          /\ refs' = [refs EXCEPT ![r] = CommitSeq[k + 1]]
    /\ UNCHANGED <<online, files, dirs, metaVars, refsVars, listing>>

Quiescent ==
    /\ \A i \in Procs : pc[i] = "idle"
    /\ \A i \in RProcs : rpc[i] = "idle"

\* the service is restarted with the other mode configured
SwitchMode ==
    /\ Quiescent
    /\ online' = ~online
    /\ UNCHANGED <<refs, files, dirs, metaVars, refsVars, listing>>

\* ---------------------------------------------------------- MetaProxyCommon
\* lines 62-63: apiMetaPath, keyed by the resolved commit
ShaPath(i) == ApiMetaPath(MetaRepoType, MetaOrgRepo, sha[i], req[i].method)

\* the first write goes to the commit-keyed path
SaveMainPathShaFirst(i) ==
    ApiMetaPath(MetaRepoType, MetaOrgRepo, sha[i], req[i].method)

\* the revision-keyed path is built with the GET file name whatever the method
SaveMainPathMutant(i) ==
    ApiMetaPath(MetaRepoType, MetaOrgRepo, req[i].rev, RequestTypeGet)

\* lines 116-117: apiMainMetaPath, keyed by the caller's revision
SaveMainPath(i) == ApiMetaPath(MetaRepoType, MetaOrgRepo, req[i].rev, req[i].method)

\* the second write goes to the revision-keyed path again
SaveShaPathMutant(i) ==
    ApiMetaPath(MetaRepoType, MetaOrgRepo, req[i].rev, req[i].method)

\* lines 127-128: apiMetaPath in requestAndSaveMeta, keyed by commitSha
SaveShaPath(i) == ApiMetaPath(MetaRepoType, MetaOrgRepo, sha[i], req[i].method)

Called(i, c) == calls' = [calls EXCEPT ![i] = Append(@, c)]

\* request i writes the file at p: whoever wrote p before and has not come
\* back from requestAndSaveMeta yet has been written over
Clobber(i, p) ==
    clobbered' = [j \in Procs |->
        IF j # i /\ pc[j] \in {"mkdirSha", "writeSha"} /\ SaveMainPath(j) = p
          THEN TRUE ELSE clobbered[j]]

\* the handler goes on to its next call with these locals
Goto(i, where, r, c) ==
    /\ pc' = [pc EXCEPT ![i] = where]
    /\ resp' = [resp EXCEPT ![i] = r]
    /\ content' = [content EXCEPT ![i] = c]
    /\ UNCHANGED outcome

\* the handler returns (util.ErrorEntryUnknown, ErrorEntryNotFound,
\* ErrorProxyError, the error of util.ResponseHeaders, or nil after the
\* emission) and its locals are gone
Finish(i, kind, code) ==
    /\ pc' = [pc EXCEPT ![i] = "idle"]
    /\ outcome' = [outcome EXCEPT ![i] = [kind |-> kind, code |-> code]]
    /\ resp' = [resp EXCEPT ![i] = NoResp]
    /\ content' = [content EXCEPT ![i] = NoContent]

\* util.ErrorEntryNotFound, ErrorEntryUnknown and ErrorProxyError write the
\* error response on the echo context and hand back an error value, which
\* may be nil
ErrorResults == {"err", "nil"}

\* the response a client is left with once a second error helper has been
\* called on a context an earlier one has written to: the earlier one's
Surfaced(first, later) == IF first.kind = "none" THEN later ELSE first

\* lines 109, 112, 121, 125, 132, 136, then 68-69 or 73-74: requestAndSaveMeta
\* calls an error helper and returns (nil, its result); MetaProxyCommon
\* returns that result when it is not nil, and goes on to line 83 with a nil
\* cacheContent when it is
Abort(i, kind, code) ==
    \E r \in ErrorResults :
       IF r = "err"
         THEN Finish(i, kind, code)
         ELSE /\ pc' = [pc EXCEPT ![i] = "emit"]
              /\ outcome' = [outcome EXCEPT ![i] = [kind |-> kind, code |-> code]]
              /\ resp' = [resp EXCEPT ![i] = NoResp]
              /\ content' = [content EXCEPT ![i] = NoContent]

\* every failure of the resolver is turned into the generic error
ResolveFailureMutant(structured, code) == [kind |-> "ProxyError", code |-> 0]

\* lines 56-61: what a failure of GetFileCommitSha is turned into
ResolveFailure(structured, code) ==
    IF structured THEN [kind |-> "EntryUnknown", code |-> code]
    ELSE [kind |-> "ProxyError", code |-> 0]

\* lines 49-61: a request arrives and its revision is resolved
MetaResolve(i) ==
    /\ pc[i] = "idle"
    /\ served < MaxRequests
    /\ served' = served + 1
    /\ prior' = [j \in Procs |->
                   IF j = i
                     THEN {k \in Procs \ {i} :
                             pc[k] = "idle" /\ outcome[k].kind = "ok"}
                   ELSE prior[j] \ {i}]
    /\ clobbered' = [clobbered EXCEPT ![i] = FALSE]
    /\ emitted' = [emitted EXCEPT ![i] = NoEmit]
    /\ \E rev \in RequestRevs, method \in Methods :
          /\ req' = [req EXCEPT ![i] = [rev |-> rev, method |-> method]]
          /\ \/ /\ sha' = [sha EXCEPT ![i] = CommitOf(rev)]
                /\ calls' = [calls EXCEPT ![i] = <<Call("resolve", "ok", 0)>>]
                /\ pc' = [pc EXCEPT ![i] = "check"]
                /\ outcome' = [outcome EXCEPT ![i] = NoOutcome]
                /\ UNCHANGED <<resp, content>>
             \/ \* the resolver fails with a myerr.Error carrying a status
                \E code \in ErrorStatuses :
                   /\ sha' = [sha EXCEPT ![i] = NoSha]
                   /\ calls' = [calls EXCEPT ![i] =
                                  <<Call("resolve", "structured", code)>>]
                   /\ Finish(i, ResolveFailure(TRUE, code).kind,
                             ResolveFailure(TRUE, code).code)
             \/ \* the resolver fails with any other error
                /\ sha' = [sha EXCEPT ![i] = NoSha]
                /\ calls' = [calls EXCEPT ![i] = <<Call("resolve", "err", 0)>>]
                /\ Finish(i, ResolveFailure(FALSE, 0).kind,
                          ResolveFailure(FALSE, 0).code)
    /\ UNCHANGED <<online, refs, files, dirs>>

\* lines 64-65, 77: the mode is read; online, the commit-keyed file is probed
MetaCheck(i) ==
    /\ pc[i] = "check"
    /\ IF online
         THEN /\ calls' = [calls EXCEPT ![i] = @ \o
                    <<Call("mode", "online", 0),
                      Call("exists",
                           IF FileExists(ShaPath(i)) THEN "yes" ELSE "no", 0)>>]
              /\ Goto(i, IF FileExists(ShaPath(i)) THEN "read" ELSE "fetch",
                      resp[i], content[i])
         ELSE /\ Called(i, Call("mode", "offline", 0))
              /\ Goto(i, "read", resp[i], content[i])
    /\ UNCHANGED <<online, refs, files, dirs, req, sha, emitted, served, prior,
                   clobbered>>

\* a failed read is an error in either mode
OnReadFailureStrict(isOnline) == "ProxyError"

\* a failed read falls back to the origin in either mode
OnReadFailureMutant(isOnline) == "fetch"

\* lines 66-68, 78-80: where a failed ReadCacheRequest leads
OnReadFailure(isOnline) == IF isOnline THEN "fetch" ELSE "ProxyError"

\* lines 66-71, 78-81: ReadCacheRequest(apiMetaPath)
MetaRead(i) ==
    /\ pc[i] = "read"
    /\ \/ /\ FileExists(ShaPath(i))
          /\ Called(i, Call("read", "ok", 0))
          /\ Goto(i, "emit", resp[i], files[ShaPath(i)])
       \/ \* the file is missing or cannot be read or decoded
          /\ Called(i, Call("read", "err", 0))
          /\ IF OnReadFailure(online) = "fetch"
               THEN Goto(i, "fetch", resp[i], content[i])
               ELSE Finish(i, "ProxyError", 0)
    /\ UNCHANGED <<online, refs, files, dirs, req, sha, emitted, served, prior,
                   clobbered>>

\* every status of the origin is accepted
AcceptedMutant(status) == TRUE

\* lines 111-113: the statuses requestAndSaveMeta accepts
Accepted(status) == status = StatusOK \/ status = StatusTemporaryRedirect

\* line 106: the origin is asked for the caller's revision, and serves the
\* commit that revision denotes at that moment
ServedCommit(i) == CommitOf(req[i].rev)

\* requestAndSaveMeta calling the origin again after a transport failure
MetaFetchRetry(i) ==
    /\ pc[i] = "fetch"
    /\ \/ \E r \in {OriginMeta(req[i].method, ServedCommit(i))} :
             /\ Called(i, Call("fetch", "ok", r.status))
             /\ Goto(i, "mkdirRev", r, content[i])
       \/ /\ Called(i, Call("fetch", "err", 0))
          /\ Goto(i, "fetch", resp[i], content[i])
    /\ UNCHANGED <<online, refs, files, dirs, req, sha, emitted, served, prior,
                   clobbered>>

\* lines 103-114: RemoteRequestMeta(method, repoType, orgRepo, commit, auth)
MetaFetch(i) ==
    /\ pc[i] = "fetch"
    /\ \/ \E r \in {OriginMeta(req[i].method, ServedCommit(i))}
                \cup {[status |-> code, headers |-> <<>>, body |-> <<>>] :
                         code \in ErrorStatuses} :
             /\ Called(i, Call("fetch", "ok", r.status))
             /\ IF Accepted(r.status)
                  THEN Goto(i, "mkdirRev", r, content[i])
                  ELSE Abort(i, "EntryUnknown", r.status)
       \/ \* the transport fails
          /\ Called(i, Call("fetch", "err", 0))
          /\ Abort(i, "EntryNotFound", 0)
    /\ UNCHANGED <<online, refs, files, dirs, req, sha, emitted, served, prior,
                   clobbered>>

\* lines 116-122: util.MakeDirs(apiMainMetaPath)
MetaMkdirRev(i) ==
    /\ pc[i] = "mkdirRev"
    /\ \/ /\ Called(i, Call("mkdirRev", "ok", 0))
          /\ dirs' = dirs \cup {DirOf(SaveMainPath(i))}
          /\ Goto(i, "writeRev", resp[i], content[i])
       \/ \* MakeDirs fails
          /\ Called(i, Call("mkdirRev", "err", 0))
          /\ Abort(i, "ProxyError", 0)
          /\ UNCHANGED dirs
    /\ UNCHANGED <<online, refs, files, req, sha, emitted, served, prior,
                   clobbered>>

\* lines 123-126: WriteCacheRequest on the revision-keyed path
MetaWriteRev(i) ==
    /\ pc[i] = "writeRev"
    /\ \/ /\ Called(i, Call("writeRev", "ok", 0))
          /\ files' = WriteFile(files, SaveMainPath(i), CacheContentOf(resp[i]))
          /\ Clobber(i, SaveMainPath(i))
          /\ Goto(i, "mkdirSha", resp[i], content[i])
       \/ \* WriteCacheRequest fails
          /\ Called(i, Call("writeRev", "err", 0))
          /\ Abort(i, "ProxyError", 0)
          /\ UNCHANGED <<files, clobbered>>
    /\ UNCHANGED <<online, refs, dirs, req, sha, emitted, served, prior>>

\* lines 127-133: util.MakeDirs(apiMetaPath)
MetaMkdirSha(i) ==
    /\ pc[i] = "mkdirSha"
    /\ \/ /\ Called(i, Call("mkdirSha", "ok", 0))
          /\ dirs' = dirs \cup {DirOf(SaveShaPath(i))}
          /\ Goto(i, "writeSha", resp[i], content[i])
       \/ \* MakeDirs fails
          /\ Called(i, Call("mkdirSha", "err", 0))
          /\ Abort(i, "ProxyError", 0)
          /\ UNCHANGED dirs
    /\ UNCHANGED <<online, refs, files, req, sha, emitted, served, prior,
                   clobbered>>

\* lines 134-142: WriteCacheRequest on the commit-keyed path, and the
\* CacheContent handed back
MetaWriteSha(i) ==
    /\ pc[i] = "writeSha"
    /\ \/ /\ Called(i, Call("writeSha", "ok", 0))
          /\ files' = WriteFile(files, SaveShaPath(i), CacheContentOf(resp[i]))
          /\ Clobber(i, SaveShaPath(i))
          /\ Goto(i, "emit", resp[i], CacheContentOf(resp[i]))
       \/ \* WriteCacheRequest fails
          /\ Called(i, Call("writeSha", "err", 0))
          /\ Abort(i, "ProxyError", 0)
          /\ UNCHANGED <<files, clobbered>>
    /\ UNCHANGED <<online, refs, dirs, req, sha, emitted, served, prior>>

\* the body is copied to the response whatever the method
EmitBodyMutant(method, body) == body

\* lines 84-93: the body bytes handed to the response for a method
EmitBody(method, body) == IF method = RequestTypeHead THEN <<>> ELSE body

\* what the client has received: status and headers, then these body bytes
Sent(c, body) ==
    [sent |-> TRUE, status |-> c.status, headers |-> c.headers, body |-> body]

\* lines 83-100: the emission.  A nil cacheContent (lines 98-99) gets
\* util.ErrorProxyError; for HEAD the handler returns what
\* util.ResponseHeaders returns (line 85); otherwise status and headers are
\* written and the body is copied (lines 87-97)
MetaEmit(i) ==
    /\ pc[i] = "emit"
    /\ IF content[i] = NoContent
         THEN /\ Called(i, Call("proxyError", "nil", 0))
              /\ Finish(i, Surfaced(outcome[i], [kind |-> "ProxyError",
                                                 code |-> 0]).kind,
                        Surfaced(outcome[i], [kind |-> "ProxyError",
                                              code |-> 0]).code)
              /\ UNCHANGED emitted
         ELSE LET body == EmitBody(req[i].method, content[i].body) IN
              \/ /\ Called(i, Call("emit", "ok", 0))
                 /\ emitted' = [emitted EXCEPT ![i] = Sent(content[i], body)]
                 /\ Finish(i, "ok", 0)
              \/ \* util.ResponseHeaders fails, before or after it wrote
                 /\ req[i].method = RequestTypeHead
                 /\ Called(i, Call("emit", "err", 0))
                 /\ \E e \in {NoEmit, Sent(content[i], <<>>)} :
                       emitted' = [emitted EXCEPT ![i] = e]
                 /\ Finish(i, "ResponseHeadersError", 0)
              \/ \* io.Copy fails after status and headers went out
                 /\ req[i].method # RequestTypeHead
                 /\ \E n \in 0..(Len(body) - 1) :
                       /\ Called(i, Call("emit", "err", 0))
                       /\ emitted' = [emitted EXCEPT ![i] =
                                         Sent(content[i], SubSeq(body, 1, n))]
                       /\ Finish(i, "ProxyError", 0)
    /\ UNCHANGED <<online, refs, files, dirs, req, sha, served, prior, clobbered>>

MetaProxyCommon(i) ==
    /\ UNCHANGED <<refsVars, listing>>
    /\ \/ MetaResolve(i)
       \/ MetaCheck(i)
       \/ MetaRead(i)
       \/ MetaFetch(i)
       \/ MetaMkdirRev(i)
       \/ MetaWriteRev(i)
       \/ MetaMkdirSha(i)
       \/ MetaWriteSha(i)
       \/ MetaEmit(i)

\* ----------------------------------------------------------------- RepoRefs
\* a mapping that lets every repository type through
RepoTypesMappingMutant == {"models", "datasets", "spaces", "bogus"}

\* consts.RepoTypesMapping: the recognized repository types
RepoTypesMapping == {"models", "datasets", "spaces"}

RefsRepoTypes == {"models", "bogus"}   \* the repoType arguments tried
RefsOrgs      == {"", "org"}           \* the org arguments tried
RefsRepos     == {"", "repo"}          \* the repo arguments tried

\* util.GetOrgRepo(org, repo): "org/repo", or the repo alone without an org
GetOrgRepo(org, repo) == IF org = "" THEN <<repo>> ELSE <<org, repo>>

\* lines 167-168: localRefsDir and localRefsPath
LocalRefsPath(repoType, orgRepo) ==
    [dir |-> <<ReposRoot, "api", repoType>> \o orgRepo \o <<"refs">>,
     name |-> <<"refs_get.json">>]

RefsPath(i) ==
    LocalRefsPath(rreq[i].repoType, GetOrgRepo(rreq[i].org, rreq[i].repo))

\* what the origin answers to a refs request: the ref list as it is now.
\* RepoRefs does not look at the status.
OriginRefs(status) ==
    [status |-> status, headers |-> <<"hdr", "refs">>,
     body |-> <<"refs", refs["main"]>>]

RCalled(i, c) == rcalls' = [rcalls EXCEPT ![i] = Append(@, c)]

RGoto(i, where, r, c) ==
    /\ rpc' = [rpc EXCEPT ![i] = where]
    /\ rresp' = [rresp EXCEPT ![i] = r]
    /\ rcontent' = [rcontent EXCEPT ![i] = c]
    /\ UNCHANGED routcome

RFinish(i, kind) ==
    /\ rpc' = [rpc EXCEPT ![i] = "idle"]
    /\ routcome' = [routcome EXCEPT ![i] = [kind |-> kind, code |-> 0]]
    /\ rresp' = [rresp EXCEPT ![i] = NoResp]
    /\ rcontent' = [rcontent EXCEPT ![i] = NoContent]

\* the refs are taken from the cache file whenever it exists
ReadsRefsCacheMutant(isOnline, exists) == exists

\* line 175: whether the refs are taken from the cache file
ReadsRefsCache(isOnline, exists) == ~isOnline /\ exists

\* line 175: Online() is read, and FileExists only when offline
RefsModeCalls(isOnline, exists) ==
    IF isOnline THEN <<Call("mode", "online", 0)>>
    ELSE <<Call("mode", "offline", 0),
           Call("exists", IF exists THEN "yes" ELSE "no", 0)>>

\* lines 155-173: validation and util.MakeDirs(localRefsPath)
RefsStart(i) ==
    /\ rpc[i] = "idle"
    /\ \E repoType \in RefsRepoTypes, org \in RefsOrgs, repo \in RefsRepos :
          LET path == LocalRefsPath(repoType, GetOrgRepo(org, repo)) IN
          /\ rreq' = [rreq EXCEPT ![i] =
                         [repoType |-> repoType, org |-> org, repo |-> repo]]
          /\ remitted' = [remitted EXCEPT ![i] = NoREmit]
          /\ chan' = [chan EXCEPT ![i] = NoChan]
          /\ IF repoType \notin RepoTypesMapping
               THEN /\ RFinish(i, "PageNotFound")
                    /\ rcalls' = [rcalls EXCEPT ![i] = <<>>]
                    /\ UNCHANGED dirs
               ELSE IF org = "" /\ repo = ""
               THEN /\ RFinish(i, "RepoNotFound")
                    /\ rcalls' = [rcalls EXCEPT ![i] = <<>>]
                    /\ UNCHANGED dirs
               ELSE \/ \* MakeDirs fails
                       /\ RFinish(i, "ProxyError")
                       /\ rcalls' = [rcalls EXCEPT ![i] =
                                        <<Call("mkdir", "err", 0)>>]
                       /\ UNCHANGED dirs
                    \/ /\ dirs' = dirs \cup {DirOf(path)}
                       /\ rcalls' = [rcalls EXCEPT ![i] =
                                        <<Call("mkdir", "ok", 0)>>]
                       /\ rpc' = [rpc EXCEPT ![i] = "probe"]
                       /\ routcome' = [routcome EXCEPT ![i] = NoOutcome]
                       /\ UNCHANGED <<rresp, rcontent>>
    /\ UNCHANGED <<online, refs, files>>

\* lines 174-175, 181: the choice between the cache and the origin
RefsProbe(i) ==
    /\ rpc[i] = "probe"
    /\ rcalls' = [rcalls EXCEPT ![i] =
                     @ \o RefsModeCalls(online, FileExists(RefsPath(i)))]
    /\ RGoto(i, IF ReadsRefsCache(online, FileExists(RefsPath(i)))
                  THEN "read" ELSE "fetch", rresp[i], rcontent[i])
    /\ UNCHANGED <<envVars, rreq, chan, remitted>>

\* lines 176-180: ReadCacheRequest(localRefsPath)
RefsRead(i) ==
    /\ rpc[i] = "read"
    /\ \/ /\ FileExists(RefsPath(i))
          /\ RCalled(i, Call("read", "ok", 0))
          /\ RGoto(i, "push", rresp[i], files[RefsPath(i)])
       \/ \* the file cannot be read or decoded
          /\ RCalled(i, Call("read", "err", 0))
          /\ RFinish(i, "ProxyError")
    /\ UNCHANGED <<envVars, rreq, chan, remitted>>

\* lines 182-187: metaDao.RepoRefs(repoType, orgRepo, authorization)
RefsFetch(i) ==
    /\ rpc[i] = "fetch"
    /\ \/ \E status \in {StatusOK} \cup ErrorStatuses :
             /\ RCalled(i, Call("fetch", "ok", status))
             /\ RGoto(i, "write", OriginRefs(status), rcontent[i])
       \/ \* the transport fails
          /\ RCalled(i, Call("fetch", "err", 0))
          /\ RFinish(i, "ProxyError")
    /\ UNCHANGED <<envVars, rreq, chan, remitted>>

\* lines 192-195: the CacheContent RepoRefs builds, without a status code
RefsContentOf(r) ==
    [status |-> 0, headers |-> ExtractHeaders(r.headers), body |-> r.body]

\* lines 188-195: WriteCacheRequest(localRefsPath, ...) and the cacheContent
RefsWrite(i) ==
    /\ rpc[i] = "write"
    /\ \/ /\ RCalled(i, Call("write", "ok", 0))
          /\ files' = WriteFile(files, RefsPath(i), CacheContentOf(rresp[i]))
          /\ RGoto(i, "push", rresp[i], RefsContentOf(rresp[i]))
       \/ \* WriteCacheRequest fails
          /\ RCalled(i, Call("write", "err", 0))
          /\ RFinish(i, "ProxyError")
          /\ UNCHANGED files
    /\ UNCHANGED <<online, refs, dirs, rreq, chan, remitted>>

\* the capacities bodyStreamChan may have: consts.RespChanSize is defined
\* outside this file, so the channel is tried unbuffered, with one slot and
\* with several
RespChanSizes == {0, 1, 2}

\* util.ResponseStream came back with an error
ResponseStreamError == [kind |-> "ResponseStreamError", code |-> 0]

\* line 197: make(chan []byte, consts.RespChanSize)
RefsMake(i) ==
    /\ rpc[i] = "push"
    /\ \E size \in RespChanSizes :
          chan' = [chan EXCEPT ![i] =
                      [buf |-> <<>>, closed |-> FALSE, made |-> TRUE,
                       cap |-> size]]
    /\ RGoto(i, "send", rresp[i], rcontent[i])
    /\ UNCHANGED <<envVars, rreq, rcalls, remitted>>

\* line 198: bodyStreamChan <- cacheContent.OriginContent.  Nothing receives
\* from the channel yet, so the send returns only when a slot is free; on a
\* channel without one the handler stays here.
RefsSend(i) ==
    /\ rpc[i] = "send"
    /\ Len(chan[i].buf) < chan[i].cap
    /\ chan' = [chan EXCEPT ![i].buf = Append(@, rcontent[i].body)]
    /\ RGoto(i, "close", rresp[i], rcontent[i])
    /\ UNCHANGED <<envVars, rreq, rcalls, remitted>>

\* the channel is left open
RefsCloseSkipped(i) ==
    /\ rpc[i] = "close"
    /\ RGoto(i, "call", rresp[i], rcontent[i])
    /\ UNCHANGED <<envVars, rreq, rcalls, remitted, chan>>

\* line 199: close(bodyStreamChan)
RefsClose(i) ==
    /\ rpc[i] = "close"
    /\ chan' = [chan EXCEPT ![i].closed = TRUE]
    /\ RGoto(i, "call", rresp[i], rcontent[i])
    /\ UNCHANGED <<envVars, rreq, rcalls, remitted>>

\* line 200: util.ResponseStream is called with the headers and the channel
RefsHandOver(i) ==
    /\ rpc[i] = "call"
    /\ RCalled(i, Call("stream", "called", 0))
    /\ RGoto(i, "stream", rresp[i], rcontent[i])
    /\ UNCHANGED <<envVars, rreq, chan, remitted>>

\* util.ResponseStream, whose result line 200 returns: the headers go out,
\* the chunks are received in order and written to the client until the
\* channel is drained and closed, and the response is finalized; a write to
\* a client that is gone fails at any point and ends the request with the
\* emitter's error, with whatever was written so far
RefsStream(i) ==
    /\ rpc[i] = "stream"
    /\ \/ /\ ~remitted[i].sent
          /\ remitted' = [remitted EXCEPT ![i] =
                             [sent |-> TRUE, headers |-> rcontent[i].headers,
                              body |-> <<>>]]
          /\ RGoto(i, "stream", rresp[i], rcontent[i])
          /\ UNCHANGED chan
       \/ /\ remitted[i].sent /\ chan[i].buf # <<>>
          /\ remitted' = [remitted EXCEPT ![i].body = @ \o Head(chan[i].buf)]
          /\ chan' = [chan EXCEPT ![i].buf = Tail(@)]
          /\ RGoto(i, "stream", rresp[i], rcontent[i])
       \/ /\ remitted[i].sent /\ chan[i].buf = <<>> /\ chan[i].closed
          /\ RFinish(i, "ok")
          /\ UNCHANGED <<chan, remitted>>
       \/ /\ RFinish(i, ResponseStreamError.kind)
          /\ UNCHANGED <<chan, remitted>>
    /\ UNCHANGED <<envVars, rreq, rcalls>>

RepoRefs(i) ==
    /\ UNCHANGED <<metaVars, listing>>
    /\ \/ RefsStart(i)
       \/ RefsProbe(i)
       \/ RefsRead(i)
       \/ RefsFetch(i)
       \/ RefsWrite(i)
       \/ RefsMake(i)
       \/ RefsSend(i)
       \/ RefsClose(i)
       \/ RefsHandOver(i)
       \/ RefsStream(i)

\* ---------------------------------------------------------- RepositoryFiles
PublicDomain == "public-domain"   \* config.SysConfig.Scheduler.PublicDomain

\* Entry names are byte strings: Go compares them byte by byte.
Bytes == {46, 97}                 \* '.' and 'a'
Names == UNION {[1..n -> Bytes] : n \in 1..MaxNameLen}
SubPaths == {<<>>, <<(<<97>>)>>}   \* filePath "" and "a"
ListCommit == "c1"

\* lines 224-227: pathsInfoShaDir
PathsInfoShaDir(repoType, orgRepo, commit, filePath) ==
    <<ReposRoot, "api", repoType>> \o orgRepo \o <<"paths-info", commit>>
        \o filePath

\* line 228: downloadLinkRoot
DownloadLinkRoot(repoType, orgRepo, commit) ==
    <<PublicDomain, repoType>> \o orgRepo \o <<"resolve", commit>>

\* line 275: pathInfoPath
PathInfoPath(pathInfoShaDir, fileName) ==
    [dir |-> Append(pathInfoShaDir, fileName), name |-> <<"paths-info_post.json">>]

\* util.ReadDir: the names of the entries directly under a directory
ReadDir(d) == {n \in Names : Append(d, n) \in dirs}

\* Go's < on strings: byte-wise, a proper prefix is smaller
RECURSIVE StrLess(_, _)
StrLess(a, b) ==
    IF b = <<>> THEN FALSE
    ELSE IF a = <<>> THEN TRUE
    ELSE IF Head(a) < Head(b) THEN TRUE
    ELSE IF Head(a) > Head(b) THEN FALSE
    ELSE StrLess(Tail(a), Tail(b))

\* a less function that compares the names alone
NodeLessMutant(x, y) == StrLess(x.name, y.name)

\* lines 261-271: the less function handed to sort.Slice
NodeLess(x, y) ==
    IF x.isDir /\ ~y.isDir THEN TRUE
    ELSE IF ~x.isDir /\ y.isDir THEN FALSE
    ELSE StrLess(x.name, y.name)

\* lines 260-272: sort.Slice(nodes, less).  On the short slices a listing
\* holds, sort.Slice is an insertion sort: from left to right, each node is
\* moved towards the front for as long as it is less than the node before it,
\* so nodes that compare equal keep their order.
Front(s) == SubSeq(s, 1, Len(s) - 1)

RECURSIVE InsertNode(_, _)
InsertNode(sorted, x) ==
    IF sorted = <<>> THEN <<x>>
    ELSE IF NodeLess(x, Last(sorted))
      THEN Append(InsertNode(Front(sorted), x), Last(sorted))
    ELSE Append(sorted, x)

RECURSIVE sortNodes(_)
sortNodes(nodes) ==
    IF nodes = <<>> THEN <<>>
    ELSE InsertNode(sortNodes(Front(nodes)), Last(nodes))

\* sonic.Unmarshal(cacheContent.OriginContent, &remoteRespPathsInfos)
Unmarshal(body) ==
    IF body.valid THEN [err |-> FALSE, infos |-> body.infos]
    ELSE [err |-> TRUE, infos |-> <<>>]

\* the size of the first PathsInfo, whatever its path
SizeOfMutant(infos, fileName) == IF infos = <<>> THEN 0 ELSE Head(infos).size

\* lines 295-300: the size of the first PathsInfo whose path is fileName
RECURSIVE SizeOf(_, _)
SizeOf(infos, fileName) ==
    IF infos = <<>> THEN 0
    ELSE IF Head(infos).path = fileName THEN Head(infos).size
    ELSE SizeOf(Tail(infos), fileName)

\* analysisFile swallowing the read and parse errors: the entry is described
\* as a file of size 0
analysisFileMutant(pathInfoShaDir, filePath, fileName, readFails) ==
    [err |-> FALSE, name |-> fileName, size |-> 0,
     isDir |-> ~FileExists(PathInfoPath(pathInfoShaDir, fileName))]

\* lines 274-305: analysisFile; readFails tells whether ReadCacheRequest fails
analysisFile(pathInfoShaDir, filePath, fileName, readFails) ==
    LET pathInfoPath == PathInfoPath(pathInfoShaDir, fileName) IN
    IF FileExists(pathInfoPath)
      THEN IF readFails
             THEN [err |-> TRUE, name |-> fileName, size |-> 0, isDir |-> FALSE]
           ELSE LET parsed == Unmarshal(files[pathInfoPath].body) IN
             IF parsed.err
               THEN [err |-> TRUE, name |-> fileName, size |-> 0, isDir |-> FALSE]
               ELSE [err |-> FALSE, name |-> fileName,
                     size |-> SizeOf(parsed.infos, Append(filePath, fileName)),
                     isDir |-> FALSE]
      ELSE [err |-> FALSE, name |-> fileName, size |-> 0, isDir |-> TRUE]

\* lines 237-254: the loop over the entries, in ReadDir's order
RECURSIVE Describe(_, _, _, _, _)
Describe(order, pathsInfoShaDir, downloadLinkRoot, filePath, failed) ==
    IF order = <<>> THEN <<>>
    ELSE LET item == Head(order)
             d == analysisFile(pathsInfoShaDir, filePath, item, item \in failed)
             rest == Describe(Tail(order), pathsInfoShaDir, downloadLinkRoot,
                              filePath, failed)
         IN IF d.err THEN rest
            ELSE <<[name |-> d.name, size |-> d.size, isDir |-> d.isDir,
                    link |-> IF d.isDir THEN <<>>
                             ELSE downloadLinkRoot \o filePath \o <<item>>]>>
                 \o rest

\* the orders in which ReadDir may hand out a set of names
Orders(S) ==
    {o \in [1..Cardinality(S) -> S] : \A a, b \in DOMAIN o : o[a] = o[b] => a = b}

\* RepositoryFiles making the listing root when it is missing, as the other
\* handlers make their directories, and returning the empty listing
RepositoryFilesMutant ==
    /\ ~listing.called
    /\ \E commit \in Commits, filePath \in SubPaths :
          LET dir == PathsInfoShaDir(MetaRepoType, MetaOrgRepo, commit, filePath)
          IN /\ dir \notin dirs
             /\ dirs' = dirs \cup {dir}
             /\ listing' = [NoListing EXCEPT !.called = TRUE,
                               !.commit = commit, !.filePath = filePath]
    /\ UNCHANGED <<online, refs, files, metaVars, refsVars>>

\* lines 223-258; one call is made on each cache
RepositoryFiles ==
    /\ ~listing.called
    /\ \E commit \in Commits, filePath \in SubPaths :
          LET dir == PathsInfoShaDir(MetaRepoType, MetaOrgRepo, commit, filePath)
              root == DownloadLinkRoot(MetaRepoType, MetaOrgRepo, commit)
          IN IF dir \notin dirs
               THEN listing' = [NoListing EXCEPT !.called = TRUE,
                                  !.commit = commit, !.filePath = filePath,
                                  !.err = "file not exists"]
               ELSE \/ \* ReadDir fails
                       listing' = [NoListing EXCEPT !.called = TRUE,
                                  !.commit = commit, !.filePath = filePath,
                                  !.err = "ReadDir"]
                    \/ \E order \in Orders(ReadDir(dir)),
                          failed \in SUBSET ReadDir(dir) :
                          listing' = [called |-> TRUE, commit |-> commit,
                                      filePath |-> filePath, order |-> order,
                                      failed |-> failed, err |-> "",
                                      nodes |-> sortNodes(Describe(order, dir,
                                                   root, filePath, failed))]
    /\ UNCHANGED <<envVars, metaVars, refsVars>>

\* The cache as earlier paths-info requests left it under one listing root:
\* up to MaxEntries entries, each a directory of its own; an entry that was
\* queried as a file holds paths-info_post.json, whose body lists the entry
\* ("file"), lists something else ("other") or does not parse ("garbage").
EntryKinds == {"dir", "file", "other", "garbage"}

PathsInfoBody(kind, filePath, name) ==
    IF kind = "file"
      THEN [valid |-> TRUE,
            infos |-> <<[path |-> <<(<<46>>)>>, size |-> 7],
                        [path |-> Append(filePath, name), size |-> 42]>>]
    ELSE IF kind = "other"
      THEN [valid |-> TRUE, infos |-> <<[path |-> <<(<<46>>)>>, size |-> 7]>>]
    ELSE [valid |-> FALSE, infos |-> <<>>]

RECURSIVE Prefixes(_)
Prefixes(d) == IF d = <<>> THEN {} ELSE {d} \cup Prefixes(SubSeq(d, 1, Len(d) - 1))

InitList ==
    /\ online \in BOOLEAN
    /\ refs = [r \in SymRevs |-> "c1"]
    /\ \E rootMade \in BOOLEAN, filePath \in SubPaths, E \in SUBSET Names :
          /\ Cardinality(E) <= MaxEntries
          /\ rootMade \/ E = {}
          /\ \E kind \in [E -> EntryKinds] :
                LET dir == PathsInfoShaDir(MetaRepoType, MetaOrgRepo,
                                           ListCommit, filePath)
                    made == {n \in E : kind[n] # "dir"}
                IN /\ dirs = IF rootMade
                               THEN Prefixes(dir) \cup {Append(dir, n) : n \in E}
                               ELSE {}
                   /\ files = [p \in {PathInfoPath(dir, n) : n \in made} |->
                                [status |-> StatusOK,
                                 headers |-> ExtractHeaders(<<"hdr">>),
                                 body |-> PathsInfoBody(kind[p.dir[Len(p.dir)]],
                                              filePath, p.dir[Len(p.dir)])]]
    /\ InitRequests

ListNext == RepositoryFiles

ListSpec == InitList /\ [][ListNext]_vars

\* ---------------------------------------------------------- specifications
Next == MoveRef \/ SwitchMode \/ \E i \in Procs : MetaProxyCommon(i)

Spec == Init /\ [][Next]_vars

RefsNext == MoveRef \/ SwitchMode \/ \E i \in RProcs : RepoRefs(i)

RefsSpec == Init /\ [][RefsNext]_vars


\* The two proxies share no cache path and no local.  A run of ServiceSpec
\* serves requests of one of them: MetaProxyCommon requests as long as no
\* RepoRefs request has arrived, RepoRefs requests as long as no
\* MetaProxyCommon request has.
NoRefsRequestYet ==
    \A i \in RProcs :
        rreq[i] = NoRReq /\ routcome[i] = NoOutcome /\ rcalls[i] = <<>>

NoMetaRequestYet == served = 0

ServiceNext == (NoRefsRequestYet /\ Next) \/ (NoMetaRequestYet /\ RefsNext)

ServiceSpec == Init /\ [][ServiceNext]_vars

\* A handler that is running keeps running: once RepoRefs has its content,
\* each step of the hand-over that can be taken is eventually taken, and so
\* is each step of util.ResponseStream.  A send that finds no free slot is
\* not such a step.
RefsDeliver(i) ==
    /\ UNCHANGED <<metaVars, listing>>
    /\ \/ RefsMake(i)
       \/ RefsSend(i)
       \/ RefsClose(i)
       \/ RefsHandOver(i)
       \/ RefsStream(i)

RefsLiveSpec == RefsSpec /\ \A i \in RProcs : WF_vars(RefsDeliver(i))
\* ------------------------------------------------------------------ claims
\* the cache keys of request i: its revision, and the commit it resolved to
RevKey(i) == ApiMetaPath(MetaRepoType, MetaOrgRepo, req[i].rev, req[i].method)
ShaKey(i) == ApiMetaPath(MetaRepoType, MetaOrgRepo, sha[i], req[i].method)

Stored(r) ==
    [status |-> r.status, headers |-> ExtractHeaders(r.headers), body |-> r.body]

\* the step in which request i comes back from requestAndSaveMeta without
\* error, with the CacheContent of lines 138-142
Returns(i) ==
    /\ pc[i] = "writeSha" /\ pc'[i] = "emit"
    /\ Last(calls'[i]) = Call("writeSha", "ok", 0)

\* request i is past a failure inside requestAndSaveMeta: it has returned, or
\* it is at line 83 with a nil cacheContent and an error response written
Failed(i) == pc[i] = "idle" \/ (pc[i] = "emit" /\ content[i] = NoContent)

\* the calls of request i to the resolver, the cache store and the origin
Collab(i) ==
    IF calls[i] # <<>> /\ Last(calls[i]).op = "proxyError"
      THEN Front(calls[i]) ELSE calls[i]

\* the positions of requestAndSaveMeta after the fetch
WritePcs == {"mkdirRev", "writeRev", "mkdirSha", "writeSha"}

\* C1 as stated: whenever requestAndSaveMeta returns without error, the
\* revision-keyed and the commit-keyed entry both exist and both hold the
\* status, headers and body of the fetched response.
C1_DualWrite ==
    [][\A i \in Procs : Returns(i) =>
          /\ RevKey(i) \in DOMAIN files' /\ ShaKey(i) \in DOMAIN files'
          /\ files'[RevKey(i)] = Stored(resp[i])
          /\ files'[ShaKey(i)] = Stored(resp[i])]_vars

\* C1 amended: whenever requestAndSaveMeta returns without error, both entries
\* exist, the commit-keyed entry and the CacheContent handed back hold the
\* fetched response, and so does the revision-keyed entry unless another
\* request wrote over it after this request wrote it.
C1_DualWriteUnlessOverwritten ==
    [][\A i \in Procs : Returns(i) =>
          /\ RevKey(i) \in DOMAIN files' /\ ShaKey(i) \in DOMAIN files'
          /\ files'[ShaKey(i)] = Stored(resp[i])
          /\ content'[i] = Stored(resp[i])
          /\ ~clobbered[i] => files'[RevKey(i)] = Stored(resp[i])]_vars

\* C1 witness: a request for a symbolic revision is back from
\* requestAndSaveMeta and both of its entries hold the fetched response.
C1_Witness ==
    \E i \in Procs :
        /\ pc[i] = "emit" /\ Last(calls[i]) = Call("writeSha", "ok", 0)
        /\ RevKey(i) # ShaKey(i)
        /\ RevKey(i) \in DOMAIN files /\ ShaKey(i) \in DOMAIN files
        /\ files[RevKey(i)] = Stored(resp[i])
        /\ files[ShaKey(i)] = Stored(resp[i])
        /\ resp[i].body # <<>>

\* request i took the online branch / the offline branch at line 64
Online(i)  == \E k \in DOMAIN calls[i] : calls[i][k] = Call("mode", "online", 0)
Offline(i) == \E k \in DOMAIN calls[i] : calls[i][k] = Call("mode", "offline", 0)

Did(i, op, res) ==
    \E k \in DOMAIN calls[i] : calls[i][k].op = op /\ calls[i][k].res = res

\* C2 as stated: online, once a request resolving to commit c with method m
\* has succeeded, every later request with the same method that resolves to c
\* and reads the cache successfully returns the same status, headers and body
\* as that first request, and does not call the origin.
C2_CacheHitIdempotent ==
    \A j \in Procs : \A i \in prior[j] :
        ( /\ Online(i) /\ Online(j)
          /\ outcome[i].kind = "ok"
          /\ sha[i] = sha[j] /\ req[i].method = req[j].method
          /\ Did(j, "read", "ok") )
        => /\ "fetch" \notin Ops(calls[j])
           /\ outcome[j].kind = "ok" => emitted[j] = emitted[i]

ProxyError == [kind |-> "ProxyError", code |-> 0]

\* C3: a request that took the offline branch never calls RemoteRequestMeta
\* (nor reaches requestAndSaveMeta), and when its commit-keyed entry is absent
\* or its read fails it ends with ProxyError.
C3_OfflineNoFetch ==
    /\ [](\A i \in Procs : Offline(i) =>
             /\ "fetch" \notin Ops(calls[i])
             /\ pc[i] \notin {"fetch"} \cup WritePcs)
    /\ [][\A i \in Procs :
             ( /\ pc[i] = "read" /\ Offline(i) /\ pc'[i] # "read"
               /\ \/ ShaKey(i) \notin DOMAIN files
                  \/ Last(calls'[i]) = Call("read", "err", 0) )
             => /\ pc'[i] = "idle"
                /\ outcome'[i] = ProxyError
                /\ ~emitted'[i].sent
                /\ files' = files]_vars

\* C3 witness: an offline request whose commit-keyed entry is absent has
\* ended with ProxyError after the failed read.
C3_Witness ==
    \E i \in Procs :
        /\ Offline(i) /\ pc[i] = "idle" /\ outcome[i] = ProxyError
        /\ Last(calls[i]) = Call("read", "err", 0)
        /\ ShaKey(i) \notin DOMAIN files

\* C4: a HEAD request never has a body byte emitted; the step that emits
\* for a HEAD request that holds content sends nothing but the status and
\* headers of that content, whichever path produced it, and sends exactly
\* those when it succeeds; a HEAD request that holds no content emits nothing.
C4_HeadNoBody ==
    /\ [](\A i \in Procs :
             req[i].method = RequestTypeHead => emitted[i].body = <<>>)
    /\ [][\A i \in Procs :
             (pc[i] = "emit" /\ pc'[i] # "emit" /\ req[i].method = RequestTypeHead)
             => LET headOnly == [sent |-> TRUE, status |-> content[i].status,
                                 headers |-> content[i].headers, body |-> <<>>]
                IN IF content[i] = NoContent THEN emitted'[i] = NoEmit
                   ELSE IF outcome'[i].kind = "ok" THEN emitted'[i] = headOnly
                   ELSE emitted'[i] \in {NoEmit, headOnly}]_vars

\* C4 witness: a HEAD request served from a cache entry that holds a
\* non-empty body has been answered with status and headers only.
C4_Witness ==
    \E i \in Procs :
        /\ req[i].method = RequestTypeHead
        /\ pc[i] = "idle" /\ outcome[i].kind = "ok"
        /\ Did(i, "read", "ok")
        /\ ShaKey(i) \in DOMAIN files /\ files[ShaKey(i)].body # <<>>
        /\ emitted[i].sent /\ emitted[i].status = files[ShaKey(i)].status
        /\ emitted[i].body = <<>>

WriteOps == {"mkdirRev", "writeRev", "mkdirSha", "writeSha"}

\* C5: a request whose origin fetch answered a status other than 200 and 307
\* has ended with EntryUnknown carrying that status, one whose fetch failed
\* in transport has ended with EntryNotFound; neither has made a cache write
\* or emitted anything, and the failing step leaves the cache as it was.
C5_OriginFailure ==
    /\ [](\A i \in Procs :
             (Collab(i) # <<>> /\ Last(Collab(i)).op = "fetch") =>
                LET c == Last(Collab(i)) IN
                /\ (c.res = "ok" /\ c.code \notin {StatusOK, StatusTemporaryRedirect})
                   => /\ Failed(i)
                      /\ outcome[i] = [kind |-> "EntryUnknown", code |-> c.code]
                      /\ Ops(calls[i]) \cap WriteOps = {}
                      /\ ~emitted[i].sent
                /\ c.res = "err"
                   => /\ Failed(i)
                      /\ outcome[i] = [kind |-> "EntryNotFound", code |-> 0]
                      /\ Ops(calls[i]) \cap WriteOps = {}
                      /\ ~emitted[i].sent)
    /\ [][\A i \in Procs :
             /\ (pc[i] = "fetch" /\ pc'[i] \notin {"fetch", "mkdirRev"}) =>
                   (files' = files /\ dirs' = dirs)
             /\ (pc[i] = "emit" /\ content[i] = NoContent /\ pc'[i] # "emit") =>
                   (files' = files /\ dirs' = dirs)]_vars

\* C5 witness: one request was refused by the origin with 404 and another
\* lost its fetch in transport.
C5_Witness ==
    \E i, j \in Procs :
        /\ calls[i] # <<>> /\ calls[j] # <<>>
        /\ pc[i] = "idle" /\ Last(calls[i]) = Call("fetch", "ok", 404)
        /\ outcome[i] = [kind |-> "EntryUnknown", code |-> 404]
        /\ pc[j] = "idle" /\ Last(calls[j]) = Call("fetch", "err", 0)
        /\ outcome[j].kind = "EntryNotFound"

\* C6: a request whose resolution failed has made no other call (no cache
\* probe, read or write, no fetch, no emission) and has ended with
\* EntryUnknown carrying the resolver's status when the failure was
\* structured and with ProxyError otherwise; the failing step leaves the
\* cache as it was, whatever the mode.
C6_ResolveFailure ==
    /\ [](\A i \in Procs :
             (calls[i] # <<>> /\ calls[i][1].res # "ok") =>
                /\ calls[i][1].op = "resolve"
                /\ Len(calls[i]) = 1
                /\ pc[i] = "idle"
                /\ ~emitted[i].sent
                /\ calls[i][1].res = "structured"
                   => outcome[i] = [kind |-> "EntryUnknown",
                                    code |-> calls[i][1].code]
                /\ calls[i][1].res = "err" => outcome[i] = ProxyError)
    /\ [][\A i \in Procs :
             (pc[i] = "idle" /\ calls'[i] # calls[i] /\ pc'[i] = "idle") =>
                 (files' = files /\ dirs' = dirs)]_vars

\* C6 witness: in offline mode, with an entry in the cache, one request ended
\* on a structured resolver failure with code 404 and another on a plain one.
C6_Witness ==
    /\ ~online
    /\ files # <<>>
    /\ \E i, j \in Procs :
          /\ calls[i] = <<Call("resolve", "structured", 404)>>
          /\ outcome[i] = [kind |-> "EntryUnknown", code |-> 404]
          /\ calls[j] = <<Call("resolve", "err", 0)>>
          /\ outcome[j] = ProxyError

ROnline(i)  == \E k \in DOMAIN rcalls[i] : rcalls[i][k] = Call("mode", "online", 0)
ROffline(i) == \E k \in DOMAIN rcalls[i] : rcalls[i][k] = Call("mode", "offline", 0)

\* C7 as stated: a RepoRefs request that found the service offline never
\* calls the origin refs fetch, whether or not the refs cache file exists.
C7_OfflineRefsNoFetch ==
    \A i \in RProcs :
        ROffline(i) => (rpc[i] # "fetch" /\ "fetch" \notin Ops(rcalls[i]))

ValidRefs(r) == r.repoType \in RepoTypesMapping /\ ~(r.org = "" /\ r.repo = "")

\* a RepoRefs request arrives: the step that takes its arguments
RefsArrives(i) == rpc[i] = "idle" /\ rcalls'[i] # rcalls[i]

\* on fetch success the write to the single refs path comes next; when it
\* succeeds the file holds the fetched response and nothing has been handed
\* to the emitter yet, when it fails nothing is ever handed over
RefsWrittenBeforeEmit ==
    /\ [](\A i \in RProcs :
             (ROnline(i) /\ "stream" \in Ops(rcalls[i])) =>
                /\ Len(rcalls[i]) = 5
                /\ rcalls[i][3].op = "fetch" /\ rcalls[i][3].res = "ok"
                /\ rcalls[i][4] = Call("write", "ok", 0)
                /\ rcalls[i][5].op = "stream")
    /\ [][\A i \in RProcs :
             (rpc[i] = "fetch" /\ rpc'[i] # "fetch"
                /\ Last(rcalls'[i]).res = "ok") => rpc'[i] = "write"]_vars
    /\ [][\A i \in RProcs :
             (rpc[i] = "write" /\ rpc'[i] # "write") =>
                IF Last(rcalls'[i]).res = "ok"
                  THEN /\ rpc'[i] = "push"
                       /\ RefsPath(i) \in DOMAIN files'
                       /\ files'[RefsPath(i)] = Stored(rresp[i])
                       /\ ~remitted'[i].sent /\ ~chan'[i].made
                  ELSE /\ rpc'[i] = "idle"
                       /\ routcome'[i] = ProxyError
                       /\ ~remitted'[i].sent /\ ~chan'[i].made
                       /\ files' = files]_vars

\* C8 as stated: every valid RepoRefs request served online has called the
\* origin refs fetch by the time it ends, and on fetch success the refs entry
\* is written with the fetched response before anything is handed to the
\* emitter.
C8_OnlineAlwaysFetches ==
    /\ [][\A i \in RProcs :
             ( /\ RefsArrives(i) \/ rpc[i] # "idle"
               /\ rpc'[i] = "idle"
               /\ online /\ ValidRefs(rreq'[i]) )
             => "fetch" \in Ops(rcalls'[i])]_vars
    /\ RefsWrittenBeforeEmit

\* C8 amended: every valid RepoRefs request arriving online whose MakeDirs
\* succeeds goes to the origin refs fetch without probing or reading the
\* cache, even when the refs file exists; one whose MakeDirs fails ends with
\* ProxyError without a fetch; and on fetch success the refs entry is written
\* with the fetched response before anything is handed to the emitter.
C8_OnlineFetchesAfterMakeDirs ==
    /\ [][\A i \in RProcs :
             /\ (RefsArrives(i) /\ online /\ ValidRefs(rreq'[i])) =>
                   IF rcalls'[i][1] = Call("mkdir", "ok", 0)
                     THEN /\ rpc'[i] = "probe"
                          /\ rcalls'[i] = <<Call("mkdir", "ok", 0)>>
                     ELSE /\ rpc'[i] = "idle"
                          /\ routcome'[i] = ProxyError
                          /\ rcalls'[i] = <<Call("mkdir", "err", 0)>>
             /\ (rpc[i] = "probe" /\ rpc'[i] # "probe" /\ online) =>
                   /\ rpc'[i] = "fetch"
                   /\ rcalls'[i] = <<Call("mkdir", "ok", 0),
                                     Call("mode", "online", 0)>>]_vars
    /\ [](\A i \in RProcs :
             ROnline(i) => /\ Ops(rcalls[i]) \cap {"read", "exists"} = {}
                           /\ rpc[i] # "read")
    /\ RefsWrittenBeforeEmit

\* C8 witness: an online request has fetched the moved ref list and written
\* it to the refs file, and nothing has been handed to the emitter yet.
C8_Witness ==
    \E i \in RProcs :
        /\ rpc[i] = "push" /\ ROnline(i)
        /\ Last(rcalls[i]) = Call("write", "ok", 0)
        /\ rresp[i].body = <<"refs", "c2">>
        /\ RefsPath(i) \in DOMAIN files /\ files[RefsPath(i)] = Stored(rresp[i])
        /\ ~chan[i].made /\ ~remitted[i].sent

\* C9 as stated: once a metadata cache entry exists its content is never
\* changed, and no entry is ever removed.
C9_Immutable ==
    [][\A p \in DOMAIN files : p \in DOMAIN files' /\ files'[p] = files[p]]_vars

\* C9 amended: no step removes a cache entry, and the cache changes only by
\* a request that went to the origin online writing the response it fetched
\* to its own revision-keyed or commit-keyed path (creating the entry or
\* replacing its content); every other entry keeps its content.
C9_OnlyFetchedWrites ==
    [][/\ DOMAIN files \subseteq DOMAIN files'
       /\ files' # files =>
             \E i \in Procs :
                /\ pc[i] \in {"writeRev", "writeSha"}
                /\ Online(i) /\ Did(i, "fetch", "ok")
                /\ \E p \in {IF pc[i] = "writeRev" THEN RevKey(i) ELSE ShaKey(i)} :
                      /\ DOMAIN files' = DOMAIN files \cup {p}
                      /\ files'[p] = Stored(resp[i])
                      /\ \A q \in DOMAIN files \ {p} : files'[q] = files[q]]_vars

\* C9 witness: a request for the moved branch has replaced the content of the
\* revision-keyed entry that an earlier, already answered request for the
\* same branch and method had written and been served with.
C9_Witness ==
    \E i, j \in Procs :
        /\ i # j
        /\ pc[i] = "mkdirSha" /\ ~clobbered[i]
        /\ req[i].rev \in SymRevs /\ req[j] = req[i]
        /\ pc[j] = "idle" /\ outcome[j].kind = "ok" /\ Did(j, "writeRev", "ok")
        /\ RevKey(i) \in DOMAIN files /\ files[RevKey(i)] = Stored(resp[i])
        /\ emitted[j].sent /\ emitted[j].status # resp[i].status

\* byte-wise order of two names, stated directly: they agree before some
\* position where a has ended or holds the smaller byte
LexLess(a, b) ==
    \E k \in 1..Len(b) :
        /\ \A m \in 1..(k - 1) : m <= Len(a) /\ a[m] = b[m]
        /\ k > Len(a) \/ a[k] < b[k]

ListedDir ==
    PathsInfoShaDir(MetaRepoType, MetaOrgRepo, listing.commit, listing.filePath)

\* the entries analysisFile gives up on: the paths-info file is there and
\* cannot be read or parsed
Skipped(e) ==
    /\ PathInfoPath(ListedDir, e) \in DOMAIN files
    /\ e \in listing.failed \/ ~files[PathInfoPath(ListedDir, e)].body.valid

\* C10: in the sequence RepositoryFiles returns, no file comes before a
\* directory, within the directories and within the files the names strictly
\* ascend byte-wise, and the sequence holds each entry of the directory that
\* was not skipped exactly once, with the kind the cache gives it.
C10_ListingSorted ==
    (listing.called /\ listing.err = "") =>
        LET n == listing.nodes
            kept == {e \in ReadDir(ListedDir) : ~Skipped(e)}
        IN /\ \A a, b \in DOMAIN n :
                 a < b => /\ n[b].isDir => n[a].isDir
                          /\ (n[a].isDir = n[b].isDir)
                             => LexLess(n[a].name, n[b].name)
           /\ {n[k].name : k \in DOMAIN n} = kept
           /\ Len(n) = Cardinality(kept)
           /\ \A k \in DOMAIN n :
                 n[k].isDir = (PathInfoPath(ListedDir, n[k].name) \notin DOMAIN files)

\* C10 witness: three entries handed out in the reverse of the returned
\* order, one directory whose name is greater than a file's and two files.
C10_Witness ==
    /\ listing.called /\ listing.err = ""
    /\ Len(listing.nodes) = 3 /\ Len(listing.order) = 3
    /\ listing.nodes[1].isDir
    /\ ~listing.nodes[2].isDir /\ ~listing.nodes[3].isDir
    /\ \A k \in 1..3 : listing.order[k] = listing.nodes[4 - k].name
    /\ LexLess(listing.nodes[2].name, listing.nodes[1].name)

\* the path of an entry relative to the repository root: subPath/entryName,
\* or entryName when subPath is empty
RelPath(name) == listing.filePath \o <<name>>

\* the size recorded for a path in a parsed paths-info body: that of the first
\* PathsInfo with that path, 0 when there is none
RecordedSize(infos, path, size) ==
    \/ \E k \in DOMAIN infos :
          /\ infos[k].path = path /\ infos[k].size = size
          /\ \A m \in 1..(k - 1) : infos[m].path # path
    \/ size = 0 /\ \A k \in DOMAIN infos : infos[k].path # path

\* C11: every node RepositoryFiles returns has isDir = false exactly when the
\* paths-info cache file of its entry exists; a file node carries the size
\* recorded for subPath/entryName in that file and the link
\* publicDomain/repoType/orgRepo/resolve/commit/subPath/entryName; a
\* directory node carries size 0 and an empty link.
C11_EntryClassification ==
    (listing.called /\ listing.err = "") =>
        \A k \in DOMAIN listing.nodes :
            LET n == listing.nodes[k]
                p == PathInfoPath(ListedDir, n.name)
            IN /\ n.name \in ReadDir(ListedDir)
               /\ n.isDir = (p \notin DOMAIN files)
               /\ n.isDir => (n.size = 0 /\ n.link = <<>>)
               /\ ~n.isDir =>
                     /\ RecordedSize(files[p].body.infos, RelPath(n.name), n.size)
                     /\ n.link = <<PublicDomain, MetaRepoType>> \o MetaOrgRepo
                                   \o <<"resolve", listing.commit>>
                                   \o RelPath(n.name)

\* C11 witness: a listing of a sub-directory returned a directory, a file of
\* the recorded size 42 and a file the paths-info body does not mention.
C11_Witness ==
    /\ listing.called /\ listing.err = "" /\ listing.filePath # <<>>
    /\ \E a, b, c \in DOMAIN listing.nodes :
          /\ listing.nodes[a].isDir
          /\ ~listing.nodes[b].isDir /\ listing.nodes[b].size = 42
          /\ listing.nodes[b].link[Len(listing.nodes[b].link)] = listing.nodes[b].name
          /\ ~listing.nodes[c].isDir /\ listing.nodes[c].size = 0

\* C12: whatever entries have a paths-info file that cannot be read or
\* parsed, a RepositoryFiles call on an existing, readable root succeeds (its
\* only errors are the missing root and the failed ReadDir), and it returns
\* each of the other entries exactly once and none of the failing ones.
C12_MalformedTolerated ==
    listing.called =>
        /\ listing.err \in {"", "file not exists", "ReadDir"}
        /\ listing.err = "file not exists" <=> ListedDir \notin dirs
        /\ listing.err = "" =>
              /\ \A e \in ReadDir(ListedDir) :
                    IF Skipped(e)
                      THEN \A k \in DOMAIN listing.nodes : listing.nodes[k].name # e
                      ELSE Cardinality({k \in DOMAIN listing.nodes :
                                           listing.nodes[k].name = e}) = 1
              /\ \A k \in DOMAIN listing.nodes :
                    listing.nodes[k].name \in ReadDir(ListedDir)

\* C12 witness: of three entries one could not be read, one could not be
\* parsed, and the call returned the third alone.
C12_Witness ==
    /\ listing.called /\ listing.err = ""
    /\ Len(listing.nodes) = 1
    /\ \E e, f \in ReadDir(ListedDir) :
          /\ e # f /\ Skipped(e) /\ Skipped(f)
          /\ e \in listing.failed
          /\ f \notin listing.failed
          /\ files[PathInfoPath(ListedDir, e)].body.valid

\* C13: the step of a RepositoryFiles call changes nothing but the call's own
\* result: no cache file or directory, no resolver, origin or emitter call of
\* any request; a missing root gives the error "file not exists", and an
\* existing empty root whose ReadDir succeeds gives the empty listing
\* without error.
C13_ListingReadOnly ==
    /\ [][listing' # listing =>
             /\ files' = files /\ dirs' = dirs /\ refs' = refs
             /\ calls' = calls /\ rcalls' = rcalls
             /\ sha' = sha /\ resp' = resp /\ rresp' = rresp]_vars
    /\ [](listing.called =>
             /\ ListedDir \notin dirs =>
                   (listing.err = "file not exists" /\ listing.nodes = <<>>)
             /\ (ListedDir \in dirs /\ ReadDir(ListedDir) = {}
                   /\ listing.err # "ReadDir")
                => (listing.err = "" /\ listing.nodes = <<>>))

\* C13 witness: a call on a cache that holds paths-info files has returned
\* a listing, one of its entries skipped.
C13_Witness ==
    /\ listing.called /\ listing.err = ""
    /\ files # <<>> /\ listing.nodes # <<>>
    /\ \E e \in ReadDir(ListedDir) : Skipped(e)

\* a RepoRefs request arrives in slot i and something of it shows
RefsTaken(i) ==
    /\ rpc[i] = "idle"
    /\ <<rreq'[i], routcome'[i], rcalls'[i]>> # <<rreq[i], routcome[i], rcalls[i]>>

\* C14: a RepoRefs request whose repoType is not recognized ends at once with
\* PageNotFound, one with a recognized repoType and both org and repo empty
\* ends at once with RepoNotFound; the arriving step makes no collaborator
\* call (no MakeDirs, no cache read or write, no fetch), changes no cache
\* file or directory and emits nothing.
C14_RefsValidation ==
    /\ [][\A i \in RProcs :
             (RefsTaken(i) /\ ~ValidRefs(rreq'[i])) =>
                /\ rpc'[i] = "idle"
                /\ routcome'[i].kind =
                      IF rreq'[i].repoType \notin {"models", "datasets", "spaces"}
                        THEN "PageNotFound" ELSE "RepoNotFound"
                /\ rcalls'[i] = <<>>
                /\ ~remitted'[i].sent /\ ~chan'[i].made
                /\ files' = files /\ dirs' = dirs]_vars
    /\ [](\A i \in RProcs :
             /\ routcome[i].kind = "PageNotFound"
                => rreq[i].repoType \notin {"models", "datasets", "spaces"}
             /\ routcome[i].kind = "RepoNotFound"
                => (rreq[i].org = "" /\ rreq[i].repo = ""
                    /\ rreq[i].repoType \in {"models", "datasets", "spaces"})
             /\ routcome[i].kind \in {"PageNotFound", "RepoNotFound"}
                => (rpc[i] = "idle" /\ rcalls[i] = <<>>))

\* C14 witness: with a refs file in the cache, a request with an
\* unrecognized repoType and empty org and repo has ended with PageNotFound.
C14_Witness ==
    \E i \in RProcs :
        /\ files # <<>>
        /\ rpc[i] = "idle" /\ routcome[i].kind = "PageNotFound"
        /\ rreq[i] = [repoType |-> "bogus", org |-> "", repo |-> ""]


RevWriteFailed(c) == c \in {Call("mkdirRev", "err", 0), Call("writeRev", "err", 0)}
ShaWriteFailed(c) == c \in {Call("mkdirSha", "err", 0), Call("writeSha", "err", 0)}

\* C15: after a successful fetch the revision-keyed file is written first
\* and that step touches no other file; the commit-keyed path is worked on
\* only after that write succeeded.  A request whose revision-keyed MakeDirs
\* or write failed has ended with ProxyError without touching the
\* commit-keyed path; one whose commit-keyed MakeDirs or write failed has
\* ended with ProxyError and the failing step leaves every file, the
\* revision-keyed one it wrote included, as it was.  Neither has emitted
\* anything.
C15_NoRollback ==
    /\ [](\A i \in Procs :
             /\ \A k \in DOMAIN calls[i] :
                   calls[i][k].op = "mkdirSha" =>
                      (k > 1 /\ calls[i][k - 1] = Call("writeRev", "ok", 0))
             /\ (Collab(i) # <<>> /\ RevWriteFailed(Last(Collab(i)))) =>
                   /\ Failed(i) /\ outcome[i] = ProxyError
                   /\ Ops(calls[i]) \cap {"mkdirSha", "writeSha"} = {}
                   /\ ~emitted[i].sent
             /\ (Collab(i) # <<>> /\ ShaWriteFailed(Last(Collab(i)))) =>
                   /\ Failed(i) /\ outcome[i] = ProxyError
                   /\ Did(i, "writeRev", "ok")
                   /\ RevKey(i) \in DOMAIN files
                   /\ ~emitted[i].sent)
    /\ [][\A i \in Procs :
             /\ (pc[i] = "mkdirRev" /\ pc'[i] = "writeRev") => files' = files
             /\ (pc[i] = "writeRev" /\ pc'[i] = "mkdirSha") =>
                   /\ DOMAIN files' = DOMAIN files \cup {RevKey(i)}
                   /\ files'[RevKey(i)] = Stored(resp[i])
                   /\ \A q \in DOMAIN files \ {RevKey(i)} : files'[q] = files[q]
             /\ (pc[i] \in WritePcs /\ pc'[i] \notin WritePcs /\ Failed(i)') =>
                   files' = files
             /\ (pc[i] \in {"mkdirSha", "writeSha"} /\ pc'[i] \notin WritePcs
                   /\ Failed(i)' /\ ~clobbered[i]) =>
                   files'[RevKey(i)] = Stored(resp[i])
             /\ (pc[i] = "emit" /\ content[i] = NoContent /\ pc'[i] # "emit") =>
                   /\ files' = files
                   /\ emitted'[i] = emitted[i]
                   /\ outcome'[i] = outcome[i]]_vars

\* C15 witness: a request for a branch has ended with ProxyError on its
\* commit-keyed write; its revision-keyed entry is in the cache and no
\* commit-keyed entry is.
C15_Witness ==
    \E i \in Procs :
        /\ calls[i] # <<>> /\ Last(calls[i]) = Call("writeSha", "err", 0)
        /\ pc[i] = "idle" /\ outcome[i] = ProxyError
        /\ RevKey(i) # ShaKey(i)
        /\ RevKey(i) \in DOMAIN files /\ ShaKey(i) \notin DOMAIN files

\* request i has fetched and has made both of its writes
Saved(i) ==
    /\ Online(i) /\ Did(i, "fetch", "ok")
    /\ Did(i, "writeRev", "ok") /\ Did(i, "writeSha", "ok")

\* what a request for (rev, method) resolved to commit c, run alone, leaves
\* at both of its paths and returns
AloneContent(method, c) == Stored(OriginMeta(method, c))

\* C16 as stated: when a request comes back from requestAndSaveMeta while
\* another request for the same revision and method, resolved to the same
\* commit, is in flight and has also fetched and written, both hold the
\* origin's content for that commit and both cache paths hold what one
\* request run alone would have written.
C16_ConcurrentMissesHarmless ==
    [][\A i, j \in Procs :
          ( /\ i # j /\ Returns(i)
            /\ pc[j] = "emit" /\ Saved(j)
            /\ req[j] = req[i] /\ sha[j] = sha[i] )
          => /\ content'[i] = AloneContent(req[i].method, sha[i])
             /\ content[j] = AloneContent(req[i].method, sha[i])
             /\ files'[RevKey(i)] = AloneContent(req[i].method, sha[i])
             /\ files'[ShaKey(i)] = AloneContent(req[i].method, sha[i])]_vars

\* both requests have missed and both have fetched
C16_BothFetched ==
    \E i, j \in Procs :
        /\ i # j /\ req[i] = req[j] /\ sha[i] = sha[j]
        /\ pc[i] = "mkdirRev" /\ pc[j] = "mkdirRev"
        /\ Did(i, "exists", "no") /\ Did(j, "exists", "no")

Fetches(log) == {k \in DOMAIN log : log[k].op = "fetch"}

\* C17: no MetaProxyCommon request and no RepoRefs request calls the origin
\* more than once, the fallback after a failed cache read included; a request
\* whose fetch failed (in transport, or for MetaProxyCommon with a refused
\* status) has ended with an error and that fetch is its last call.
C17_NoRetries ==
    /\ \A i \in Procs :
          /\ Cardinality(Fetches(calls[i])) <= 1
          /\ \A k \in Fetches(calls[i]) :
                (calls[i][k].res = "err"
                 \/ calls[i][k].code \notin {StatusOK, StatusTemporaryRedirect})
                => /\ k = Len(Collab(i))
                   /\ Failed(i)
                   /\ outcome[i].kind \in {"EntryNotFound", "EntryUnknown",
                                            "ProxyError"}
    /\ \A i \in RProcs :
          /\ Cardinality(Fetches(rcalls[i])) <= 1
          /\ \A k \in Fetches(rcalls[i]) :
                rcalls[i][k].res = "err"
                => /\ k = Len(rcalls[i])
                   /\ rpc[i] = "idle"
                   /\ routcome[i] = ProxyError

\* C17 witness: a request that found its entry, failed to read it and fell
\* back to the origin has ended on the transport failure of its one fetch.
C17_Witness ==
    \E i \in Procs :
        /\ pc[i] = "idle" /\ outcome[i].kind = "EntryNotFound"
        /\ calls[i] = <<Call("resolve", "ok", 0), Call("mode", "online", 0),
                        Call("exists", "yes", 0), Call("read", "err", 0),
                        Call("fetch", "err", 0)>>

ReadFailed(i) == Did(i, "read", "err")

\* C18: online, a request whose existing commit-keyed entry could not be read
\* goes on to the origin fetch as its next call; from there it proceeds as on
\* a miss: it writes the fetched response to its revision-keyed and then to
\* its commit-keyed path, comes back with the fetched content and emits it.
\* Offline, the same read failure ends the request with ProxyError, with no
\* fetch, no cache write and nothing emitted.
C18_ReadFailureFallback ==
    /\ [](\A i \in Procs :
             /\ (Online(i) /\ ReadFailed(i)) =>
                   /\ calls[i][3] = Call("exists", "yes", 0)
                   /\ calls[i][4] = Call("read", "err", 0)
                   /\ IF Len(calls[i]) = 4 THEN pc[i] = "fetch"
                                           ELSE calls[i][5].op = "fetch"
                   /\ (pc[i] = "emit" /\ content[i] # NoContent) =>
                         /\ Did(i, "writeRev", "ok") /\ Did(i, "writeSha", "ok")
                         /\ content[i] = Stored(resp[i])
                   /\ (pc[i] = "idle" /\ outcome[i].kind = "ok") =>
                         /\ Did(i, "writeRev", "ok") /\ Did(i, "writeSha", "ok")
                         /\ emitted[i].sent
             /\ (Offline(i) /\ ReadFailed(i)) =>
                   /\ pc[i] = "idle" /\ outcome[i] = ProxyError
                   /\ Last(calls[i]) = Call("read", "err", 0)
                   /\ Ops(calls[i]) \cap ({"fetch"} \cup WriteOps) = {}
                   /\ ~emitted[i].sent)
    /\ [][\A i \in Procs :
             /\ (pc[i] = "read" /\ pc'[i] # "read" /\ ReadFailed(i)')
                => (files' = files /\ dirs' = dirs)
             /\ (ReadFailed(i) /\ pc[i] = "writeRev" /\ pc'[i] = "mkdirSha")
                => files'[RevKey(i)] = Stored(resp[i])
             /\ (ReadFailed(i) /\ Returns(i))
                => files'[ShaKey(i)] = Stored(resp[i])
             /\ (ReadFailed(i) /\ pc[i] = "emit" /\ pc'[i] = "idle"
                   /\ outcome'[i].kind = "ok")
                => /\ emitted'[i].status = resp[i].status
                   /\ emitted'[i].headers = ExtractHeaders(resp[i].headers)]_vars

\* C18 witness: an online request that failed to read its existing entry is
\* back from requestAndSaveMeta with the fetched content, which is now at
\* both of its cache paths.
C18_Witness ==
    \E i \in Procs :
        /\ Online(i) /\ ReadFailed(i) /\ pc[i] = "emit"
        /\ Last(calls[i]) = Call("writeSha", "ok", 0)
        /\ RevKey(i) # ShaKey(i)
        /\ RevKey(i) \in DOMAIN files /\ files[RevKey(i)] = content[i]
        /\ files[ShaKey(i)] = content[i]
        /\ content[i] = Stored(resp[i])

\* the channel RepoRefs builds: never more chunks than slots; after the send
\* it holds exactly one chunk, the whole body of the content; it is closed
\* before util.ResponseStream is called; and what the emitter has taken from
\* it is what it has written
HandOffShape(i) ==
    /\ chan[i].made => Len(chan[i].buf) <= chan[i].cap
    /\ rpc[i] = "send" => (chan[i].buf = <<>> /\ ~chan[i].closed)
    /\ rpc[i] = "close" => (chan[i].buf = <<rcontent[i].body>> /\ ~chan[i].closed)
    /\ rpc[i] = "call" => (chan[i].buf = <<rcontent[i].body>> /\ chan[i].closed)
    /\ rpc[i] \in {"send", "close", "call"} => ~remitted[i].sent
    /\ rpc[i] = "stream" =>
          /\ chan[i].closed
          /\ IF chan[i].buf = <<>>
               THEN remitted[i].sent /\ remitted[i].body = rcontent[i].body
               ELSE chan[i].buf = <<rcontent[i].body>> /\ remitted[i].body = <<>>

\* the content handed over is the entry read from the cache or the response
\* fetched, and the hand-over is the make, the send, the close and the call
\* in this order
HandOffStep(i) ==
    /\ (rpc[i] = "read" /\ rpc'[i] = "push")
       => rcontent'[i].body = files[RefsPath(i)].body
    /\ (rpc[i] = "write" /\ rpc'[i] = "push")
       => rcontent'[i].body = rresp[i].body
    /\ (rpc[i] = "push" /\ rpc'[i] # "push")
       => /\ rpc'[i] = "send"
          /\ chan'[i].made /\ chan'[i].buf = <<>> /\ ~chan'[i].closed
          /\ chan'[i].cap \in {0, 1, 2}
    /\ (rpc[i] = "send" /\ rpc'[i] # "send")
       => /\ rpc'[i] = "close"
          /\ chan[i].cap >= 1
          /\ chan'[i] = [chan[i] EXCEPT !.buf = <<rcontent[i].body>>]
    /\ (rpc[i] = "close" /\ rpc'[i] # "close")
       => /\ rpc'[i] = "call"
          /\ chan'[i] = [chan[i] EXCEPT !.closed = TRUE]
    /\ (rpc[i] = "call" /\ rpc'[i] # "call")
       => /\ rpc'[i] = "stream"
          /\ chan'[i] = chan[i] /\ remitted'[i] = remitted[i]
    /\ (rpc[i] \in {"push", "send", "close", "call", "stream"}
          /\ rpc'[i] # "idle")
       => rcontent'[i] = rcontent[i]

\* the emitter takes the one chunk, all of it, and writes it
ChunkReceived(i) ==
    (rpc[i] = "stream" /\ rpc'[i] = "stream" /\ chan'[i] # chan[i])
    => /\ chan[i].buf = <<rcontent[i].body>> /\ chan'[i].buf = <<>>
       /\ chan'[i].closed
       /\ remitted'[i].body = rcontent[i].body

C20_CommitEntriesFaithful ==
    \A c \in Commits, m \in Methods :
        LET p == ApiMetaPath(MetaRepoType, MetaOrgRepo, c, m) IN
        p \in DOMAIN files => files[p] = Stored(OriginMeta(m, c))
====
